---------------------------- MODULE Spec2Model ----------------------------
(***************************************************************************)
(* Model of the key-registry and will/witness handlers of                  *)
(* sawtooth_intkey/client_cli/intkey_cli.py.                               *)
(*                                                                         *)
(* A string is a sequence of tokens, so that '+' on strings is \o and the  *)
(* prefixes 'WILL_' and 'WILL_LIST_' = 'WILL_' + 'LIST_' relate as in the  *)
(* source.  A JSON object is a function from field names to values (a      *)
(* field that is absent is outside its DOMAIN), a JSON array a sequence.   *)
(* A value held by the ledger carries its JSON type.                       *)
(***************************************************************************)
EXTENDS Integers, Sequences, FiniteSets, TLC

VARIABLES
    store,  \* the ledger seen through IntkeyClient: key -> value, absent keys outside DOMAIN
    last,   \* the last request handled and the response it got
    procs   \* the handlers in flight, each between two calls of the ledger client

vars == <<store, last, procs>>

---------------------------------------------------------------------------
(* Program constants *)

WILL_PREFIX == <<"WILL_">>

WILL_LIST_PREFIX == <<"WILL_", "LIST_">>

KEY_NEED_REVIEW == <<"KEY_NEED_REVIEW">>

---------------------------------------------------------------------------
(* Bounds and input sets *)

\* longest witness list a create-will request carries
MaxWitnesses == 2

\* public keys that register and get approved
PubKeys == {<<"alice">>, <<"bob">>, <<"carol">>}

\* public keys of testators
Testators == {<<"alice">>}

\* the testators of the specifications that follow two wills
TwoTestators == {<<"alice">>, <<"dave">>}

\* the one key that registers where the wills are followed too
LedgerKeys == {<<"alice">>}

\* public keys that are named as, or claim to be, witnesses
Witnesses == {<<"bob">>, <<"carol">>}

\* the status values a caller may put in a register body
RegisterStatuses == {"approved"}

\* the status values a caller may put in a create-will body
WillStatuses == {"pending", "valid"}

\* the status values a caller may put in a witness entry
EntryStatuses == {"signed"}

\* the JSON object with no field
EmptyObject == <<>>

\* the keys that register where calls are followed one ledger call at a time
StepsKeys == {<<"alice">>, <<"bob">>}

\* the handlers that may be in flight together
Procs == {"p1", "p2"}

\* how often one call may stop between two of its ledger calls before it is re-run
MaxCrashes == 1

---------------------------------------------------------------------------
(* JSON values and Python list / dict operations *)

JList(items) == [items |-> items, type |-> "list"]

JDict(fields) == [type |-> "dict", fields |-> fields]

\* 'f' in d
HasField(d, f) == f \in DOMAIN d

\* d[f] = v
SetField(d, f, v) == [k \in (DOMAIN d) \cup {f} |-> IF k = f THEN v ELSE d[k]]

\* x in l
Contains(l, x) == \E i \in 1..Len(l) : l[i] = x

\* l.remove(x), for x in l: drops the first occurrence
RemoveFirst(l, x) ==
    LET i == CHOOSE j \in 1..Len(l) : l[j] = x /\ \A h \in 1..(j - 1) : l[h] # x
    IN  SubSeq(l, 1, i - 1) \o SubSeq(l, i + 1, Len(l))

---------------------------------------------------------------------------
(* The ledger client *)

\* client.show(name) raises when the name was never set
Exists(s, name) == name \in DOMAIN s

\* client.set(name, value, wait)
ClientSet(s, name, value) ==
    [k \in (DOMAIN s) \cup {name} |-> IF k = name THEN value ELSE s[k]]

\* client.show raises IntkeyClientException for a failed request as it does for a
\* name never set: a handler whose reads of these names failed sees the store
\* without them
Unread(s, names) == [k \in (DOMAIN s) \ names |-> s[k]]

---------------------------------------------------------------------------
(* Responses *)

Response(status, data) == [status |-> status, data |-> data]

\* _wrap_response(request, data=None)
WrongMethod == Response(200, "none")

MissingParam == Response(400, "missing_param")

\* an exception that leaves the handler: aiohttp answers 500
UnhandledAnswersRecord == Response(200, "record")

Unhandled == Response(500, "exception")

Handled(op, req, resp) == [op |-> op, req |-> req, resp |-> resp]

Request(method, body, query) == [method |-> method, body |-> body, query |-> query]

---------------------------------------------------------------------------
(* register_pubkey *)

\* if 'status' not in body: body['status'] = 'need_review'
DefaultStatusIdentity(body) == body

DefaultStatus(body) ==
    IF HasField(body, "status") THEN body ELSE SetField(body, "status", "need_review")

\* if pubkey not in list_pending: list_pending.append(pubkey)
AppendAlways(l, x) == Append(l, x)

AppendNever(l, x) == l

AppendIfAbsent(l, x) == IF Contains(l, x) THEN l ELSE Append(l, x)

\* the store after the handler's writes, for a body that has a public key
RegisterWrites(s, body0) ==
    LET body   == DefaultStatus(body0)
        pubkey == body.public_key
        s1     == IF Exists(s, KEY_NEED_REVIEW) THEN s
                  ELSE ClientSet(s, KEY_NEED_REVIEW, JList(<<>>))
        read   == IF Exists(s, KEY_NEED_REVIEW) THEN s[KEY_NEED_REVIEW].items ELSE <<>>
        s2     == ClientSet(s1, KEY_NEED_REVIEW, JList(AppendIfAbsent(read, pubkey)))
    IN  ClientSet(s2, pubkey, JDict(body))

register_pubkey(req) ==
    \/ /\ req.method # "POST"
       /\ last' = Handled("register", req, WrongMethod)
       /\ UNCHANGED procs
       /\ UNCHANGED store
    \/ /\ req.method = "POST"
       /\ ~HasField(req.body, "public_key")
       /\ last' = Handled("register", req, MissingParam)
       /\ UNCHANGED procs
       /\ UNCHANGED store
    \/ /\ req.method = "POST"
       /\ HasField(req.body, "public_key")
       /\ store' = RegisterWrites(store, req.body)
       /\ last' = Handled("register", req, Response(200, "processing"))
       /\ UNCHANGED procs

\* the handler when get_value(KEY_NEED_REVIEW) raises although the list is set: the
\* except branch runs, and the list is written anew
register_pubkey_read_fails(req) ==
    /\ req.method = "POST"
    /\ HasField(req.body, "public_key")
    /\ Exists(store, KEY_NEED_REVIEW)
    /\ store' = RegisterWrites(Unread(store, {KEY_NEED_REVIEW}), req.body)
    /\ last' = Handled("register", req, Response(200, "processing"))
    /\ UNCHANGED procs

---------------------------------------------------------------------------
(* approve_public_key *)

\* if pubkey in pending_list: pending_list.remove(pubkey)
DequeueNothing(l, x) == l

Dequeue(l, x) == IF Contains(l, x) THEN RemoveFirst(l, x) ELSE l

\* body['status'] = 'approved'
MarkApproved(body) == SetField(body, "status", "approved")

approve_public_key(req) ==
    \/ /\ req.method # "GET"
       /\ last' = Handled("approve", req, WrongMethod)
       /\ UNCHANGED procs
       /\ UNCHANGED store
    \/ /\ req.method = "GET"
       /\ ~HasField(req.query, "public_key")
       /\ last' = Handled("approve", req, MissingParam)
       /\ UNCHANGED procs
       /\ UNCHANGED store
    \/ /\ req.method = "GET"
       /\ HasField(req.query, "public_key")
       /\ ~Exists(store, req.query.public_key)
       /\ last' = Handled("approve", req, Unhandled)
       /\ UNCHANGED procs
       /\ UNCHANGED store
    \/ /\ req.method = "GET"
       /\ HasField(req.query, "public_key")
       /\ Exists(store, req.query.public_key)
       /\ LET pubkey == req.query.public_key
              body   == MarkApproved(store[pubkey].fields)
              s1     == ClientSet(store, pubkey, JDict(body))
          IN  IF Exists(s1, KEY_NEED_REVIEW)
              THEN /\ store' = ClientSet(s1, KEY_NEED_REVIEW,
                                   JList(Dequeue(s1[KEY_NEED_REVIEW].items, pubkey)))
                   /\ last' = Handled("approve", req, Response(200, "record"))
                   /\ UNCHANGED procs
              ELSE /\ store' = s1
                   /\ last' = Handled("approve", req, Unhandled)
                   /\ UNCHANGED procs

---------------------------------------------------------------------------
(* Handlers in flight.  The ledger is a service of its own, reached at --url;
   every client.show and client.set is one request to it, and the services and
   command lines that run against one ledger share nothing else.  A handler is
   therefore a sequence of steps, one per ledger call: pc names the call it
   makes next, and body, list and i are its local variables.  Where calls are
   re-run, origin is the store as it was when the call was first started and
   attempt counts the re-runs. *)

Proc(pc, op, req, body, list, i, origin, attempt) ==
    [i |-> i, op |-> op, req |-> req, body |-> body, pc |-> pc, list |-> list,
     origin |-> origin, attempt |-> attempt]

Idle == Proc("idle", "none", Request("GET", EmptyObject, EmptyObject), EmptyObject, <<>>, 0, <<>>, 0)

Running(pr) == pr.pc \notin {"idle", "done", "failed", "crashed"}

\* the handler returns its response
Finish(p, resp) ==
    /\ procs' = [procs EXCEPT ![p].pc = IF resp.status = 200 THEN "done" ELSE "failed"]
    /\ last' = Handled(procs[p].op, procs[p].req, resp)

\* the handler's process dies, or a ledger call raises, between two steps
Crash(p) ==
    /\ Running(procs[p])
    /\ procs[p].attempt < MaxCrashes
    /\ procs' = [procs EXCEPT ![p].pc = "crashed"]
    /\ UNCHANGED <<store, last>>

---------------------------------------------------------------------------
(* register_pubkey, one ledger call at a time *)

RegisterStart(req, origin, attempt) ==
    Proc("read_list", "register", req, DefaultStatus(req.body), <<>>, 0, origin, attempt)

register_step(p) ==
    LET pr == procs[p]
        pubkey == pr.body.public_key
    IN  /\ pr.op = "register"
        /\ \/ /\ pr.pc = "read_list"
              /\ Exists(store, KEY_NEED_REVIEW)
              /\ procs' = [procs EXCEPT ![p].list = store[KEY_NEED_REVIEW].items,
                                        ![p].pc = "write_list"]
              /\ UNCHANGED <<store, last>>
           \/ /\ pr.pc = "read_list"
              /\ ~Exists(store, KEY_NEED_REVIEW)
              /\ procs' = [procs EXCEPT ![p].pc = "init_list"]
              /\ UNCHANGED <<store, last>>
           \/ /\ pr.pc = "init_list"
              /\ store' = ClientSet(store, KEY_NEED_REVIEW, JList(<<>>))
              /\ procs' = [procs EXCEPT ![p].list = <<>>, ![p].pc = "write_list"]
              /\ UNCHANGED last
           \/ /\ pr.pc = "write_list"
              /\ store' = ClientSet(store, KEY_NEED_REVIEW,
                                    JList(AppendIfAbsent(pr.list, pubkey)))
              /\ procs' = [procs EXCEPT ![p].pc = "write_record"]
              /\ UNCHANGED last
           \/ /\ pr.pc = "write_record"
              /\ store' = ClientSet(store, pubkey, JDict(pr.body))
              /\ procs' = [procs EXCEPT ![p].pc = "respond"]
              /\ UNCHANGED last
           \/ /\ pr.pc = "respond"
              /\ Finish(p, Response(200, "processing"))
              /\ UNCHANGED store

---------------------------------------------------------------------------
(* approve_public_key, one ledger call at a time *)

ApproveStart(req, origin, attempt) ==
    Proc("read_record", "approve", req, EmptyObject, <<>>, 0, origin, attempt)

approve_step(p) ==
    LET pr == procs[p]
        pubkey == pr.req.query.public_key
    IN  /\ pr.op = "approve"
        /\ \/ /\ pr.pc = "read_record"
              /\ ~Exists(store, pubkey)
              /\ Finish(p, Unhandled)
              /\ UNCHANGED store
           \/ /\ pr.pc = "read_record"
              /\ Exists(store, pubkey)
              /\ procs' = [procs EXCEPT ![p].body = MarkApproved(store[pubkey].fields),
                                        ![p].pc = "write_record"]
              /\ UNCHANGED <<store, last>>
           \/ /\ pr.pc = "write_record"
              /\ store' = ClientSet(store, pubkey, JDict(pr.body))
              /\ procs' = [procs EXCEPT ![p].pc = "read_list"]
              /\ UNCHANGED last
           \/ /\ pr.pc = "read_list"
              /\ ~Exists(store, KEY_NEED_REVIEW)
              /\ Finish(p, Unhandled)
              /\ UNCHANGED store
           \/ /\ pr.pc = "read_list"
              /\ Exists(store, KEY_NEED_REVIEW)
              /\ procs' = [procs EXCEPT ![p].list = Dequeue(store[KEY_NEED_REVIEW].items, pubkey),
                                        ![p].pc = "write_list"]
              /\ UNCHANGED <<store, last>>
           \/ /\ pr.pc = "write_list"
              /\ store' = ClientSet(store, KEY_NEED_REVIEW, JList(pr.list))
              /\ procs' = [procs EXCEPT ![p].pc = "respond"]
              /\ UNCHANGED last
           \/ /\ pr.pc = "respond"
              /\ Finish(p, Response(200, "record"))
              /\ UNCHANGED store

---------------------------------------------------------------------------
(* list_need_approve *)

\* for pubkey in pending_list: users.append(get_value(global_args, pubkey))
ResolveListed(s, l) == [i \in 1..Len(l) |-> s[l[i]].fields]

\* the same loop, had it passed over the keys it cannot read
ResolveReadable(s, l) == ResolveListed(s, SelectSeq(l, LAMBDA k : Exists(s, k)))

list_need_approve(req) ==
    \/ /\ req.method # "GET"
       /\ last' = Handled("list_need_approve", req, WrongMethod)
       /\ UNCHANGED <<store, procs>>
    \/ /\ req.method = "GET"
       /\ ~Exists(store, KEY_NEED_REVIEW)
       /\ last' = Handled("list_need_approve", req, Unhandled)
       /\ UNCHANGED <<store, procs>>
    \/ /\ req.method = "GET"
       /\ Exists(store, KEY_NEED_REVIEW)
       /\ \E i \in 1..Len(store[KEY_NEED_REVIEW].items) :
              ~Exists(store, store[KEY_NEED_REVIEW].items[i])
       /\ last' = Handled("list_need_approve", req, Unhandled)
       /\ UNCHANGED <<store, procs>>
    \/ /\ req.method = "GET"
       /\ Exists(store, KEY_NEED_REVIEW)
       /\ \A i \in 1..Len(store[KEY_NEED_REVIEW].items) :
              Exists(store, store[KEY_NEED_REVIEW].items[i])
       /\ last' = [op |-> "list_need_approve", req |-> req, resp |-> Response(200, "records"),
                   payload |-> ResolveListed(store, store[KEY_NEED_REVIEW].items)]
       /\ UNCHANGED <<store, procs>>

---------------------------------------------------------------------------
(* create_will *)

\* 'witnesses' not in body or len(body['witnesses']) == 0
NoWitnessesField(body) == ~HasField(body, "witnesses")

NoWitnesses(body) == ~HasField(body, "witnesses") \/ Len(body.witnesses) = 0

\* one pass of the loop over body['witnesses']: the witness's will list gets the
\* testator's key unless it is there already
IndexWriteAlways(s, wn, pubkey) ==
    LET name      == WILL_LIST_PREFIX \o wn.public_key
        will_list == IF Exists(s, name) THEN s[name].items ELSE <<>>
    IN  ClientSet(s, name, JList(Append(will_list, pubkey)))

IndexWriteFresh(s, wn, pubkey) ==
    ClientSet(s, WILL_LIST_PREFIX \o wn.public_key, JList(<<pubkey>>))

IndexWrite(s, wn, pubkey) ==
    LET name      == WILL_LIST_PREFIX \o wn.public_key
        will_list == IF Exists(s, name) THEN s[name].items ELSE <<>>
    IN  IF Contains(will_list, pubkey) THEN s
        ELSE ClientSet(s, name, JList(Append(will_list, pubkey)))

\* for wn in body['witnesses']: ...
RECURSIVE IndexWrites(_, _, _)
IndexWrites(s, witnesses, pubkey) ==
    IF witnesses = <<>> THEN s
    ELSE IndexWrites(IndexWrite(s, Head(witnesses), pubkey), Tail(witnesses), pubkey)

\* the store after the handler's writes, for a body that has a public key
CreateWillWrites(s, body) ==
    LET pubkey == body.public_key
    IN  IF NoWitnesses(body)
        THEN ClientSet(s, WILL_PREFIX \o pubkey, JDict(SetField(body, "status", "valid")))
        ELSE ClientSet(IndexWrites(s, body.witnesses, pubkey),
                       WILL_PREFIX \o pubkey, JDict(body))

create_will(req) ==
    \/ /\ req.method # "POST"
       /\ last' = Handled("create_will", req, WrongMethod)
       /\ UNCHANGED procs
       /\ UNCHANGED store
    \/ /\ req.method = "POST"
       /\ ~HasField(req.body, "public_key")
       /\ last' = Handled("create_will", req, MissingParam)
       /\ UNCHANGED procs
       /\ UNCHANGED store
    \/ /\ req.method = "POST"
       /\ HasField(req.body, "public_key")
       /\ store' = CreateWillWrites(store, req.body)
       /\ last' = Handled("create_will", req, Response(200, "processing"))
       /\ UNCHANGED procs

\* the handler when the reads of the will lists in lost raise although the lists
\* are set: will_list stays [] for them
create_will_read_fails(req, lost) ==
    /\ req.method = "POST"
    /\ HasField(req.body, "public_key")
    /\ ~NoWitnesses(req.body)
    /\ lost # {}
    /\ \A name \in lost :
           /\ Exists(store, name)
           /\ \E i \in 1..Len(req.body.witnesses) :
                  name = WILL_LIST_PREFIX \o req.body.witnesses[i].public_key
    /\ store' = CreateWillWrites(Unread(store, lost), req.body)
    /\ last' = Handled("create_will", req, Response(200, "processing"))
    /\ UNCHANGED procs

---------------------------------------------------------------------------
(* create_will, one ledger call at a time *)

\* will_list.append(pubkey)
IndexAppendNothing(will_list, pubkey) == will_list

IndexAppend(will_list, pubkey) == Append(will_list, pubkey)

CreateWillStart(req, origin, attempt) ==
    IF NoWitnesses(req.body)
    THEN Proc("write_will", "create_will", req, SetField(req.body, "status", "valid"),
              <<>>, 1, origin, attempt)
    ELSE Proc("read_index", "create_will", req, req.body, <<>>, 1, origin, attempt)

create_will_step(p) ==
    LET pr     == procs[p]
        pubkey == pr.body.public_key
        name   == WILL_LIST_PREFIX \o pr.body.witnesses[pr.i].public_key
        after  == IF pr.i = Len(pr.body.witnesses) THEN "write_will" ELSE "read_index"
    IN  /\ pr.op = "create_will"
        /\ \/ /\ pr.pc = "read_index"
              /\ LET will_list == IF Exists(store, name) THEN store[name].items ELSE <<>>
                 IN  IF Contains(will_list, pubkey)
                     THEN procs' = [procs EXCEPT ![p].i = pr.i + 1, ![p].pc = after]
                     ELSE procs' = [procs EXCEPT ![p].list = will_list,
                                                 ![p].pc = "write_index"]
              /\ UNCHANGED <<store, last>>
           \/ /\ pr.pc = "write_index"
              /\ store' = ClientSet(store, name, JList(IndexAppend(pr.list, pubkey)))
              /\ procs' = [procs EXCEPT ![p].i = pr.i + 1, ![p].pc = after]
              /\ UNCHANGED last
           \/ /\ pr.pc = "write_will"
              /\ store' = ClientSet(store, WILL_PREFIX \o pubkey, JDict(pr.body))
              /\ procs' = [procs EXCEPT ![p].pc = "respond"]
              /\ UNCHANGED last
           \/ /\ pr.pc = "respond"
              /\ Finish(p, Response(200, "processing"))
              /\ UNCHANGED store

---------------------------------------------------------------------------
(* show_will_list *)

\* one pass of the loop over the listed keys: the will with the record of its
\* public key attached, or nothing when one of the two reads raises
WillEntryUnattached(s, will_pubkey) ==
    IF Exists(s, WILL_PREFIX \o will_pubkey)
    THEN <<s[WILL_PREFIX \o will_pubkey].fields>>
    ELSE <<>>

WillEntry(s, will_pubkey) ==
    IF /\ Exists(s, WILL_PREFIX \o will_pubkey)
       /\ Exists(s, s[WILL_PREFIX \o will_pubkey].fields.public_key)
    THEN LET will     == s[WILL_PREFIX \o will_pubkey].fields
             testator == s[will.public_key].fields
         IN  <<SetField(will, "testator", testator)>>
    ELSE <<>>

\* for will_pubkey in will_list_pubkey: ...
RECURSIVE WillEntries(_, _)
WillEntries(s, will_list_pubkey) ==
    IF will_list_pubkey = <<>> THEN <<>>
    ELSE WillEntry(s, Head(will_list_pubkey)) \o WillEntries(s, Tail(will_list_pubkey))

show_will_list(req) ==
    \/ /\ req.method # "GET"
       /\ last' = Handled("show_will_list", req, WrongMethod)
       /\ UNCHANGED <<store, procs>>
    \/ /\ req.method = "GET"
       /\ ~HasField(req.query, "public_key")
       /\ last' = Handled("show_will_list", req, MissingParam)
       /\ UNCHANGED <<store, procs>>
    \/ /\ req.method = "GET"
       /\ HasField(req.query, "public_key")
       /\ LET name             == WILL_LIST_PREFIX \o req.query.public_key
              will_list_pubkey == IF Exists(store, name) THEN store[name].items ELSE <<>>
          IN  last' = [op |-> "show_will_list", req |-> req, resp |-> Response(200, "wills"),
                       payload |-> WillEntries(store, will_list_pubkey)]
       /\ UNCHANGED <<store, procs>>

---------------------------------------------------------------------------
(* witness_sign *)

\* 'status' in wn and wn["status"] == 'signed'
IsSigned(wn) == HasField(wn, "status") /\ wn.status = "signed"

\* what one pass of the loop over the witnesses adds to sign_count
SignIncrement(wn, witness) ==
    (IF IsSigned(wn) THEN 1 ELSE 0) + (IF wn.public_key = witness THEN 1 ELSE 0)

\* what one pass of the loop leaves in the witness entry
SignEntry(wn, witness) ==
    IF wn.public_key = witness THEN SetField(wn, "status", "signed") ELSE wn

\* for wn in witnesses: ...  (acc: the entries passed, found_witness, sign_count)
RECURSIVE SignLoop(_, _, _)
SignLoop(witnesses, witness, acc) ==
    IF witnesses = <<>> THEN acc
    ELSE LET wn == Head(witnesses)
         IN  SignLoop(Tail(witnesses), witness,
                 [witnesses     |-> Append(acc.witnesses, SignEntry(wn, witness)),
                  found_witness |-> acc.found_witness \/ wn.public_key = witness,
                  sign_count    |-> acc.sign_count + SignIncrement(wn, witness)])

SignResult(body, witness) ==
    SignLoop(body.witnesses, witness,
             [witnesses |-> <<>>, found_witness |-> FALSE, sign_count |-> 0])

\* if sign_count == len(body['witnesses']): body['status'] = 'valid'
SetStatusBothWays(body, sign_count) ==
    IF sign_count = Len(body.witnesses) THEN SetField(body, "status", "valid")
    ELSE SetField(body, "status", "pending")

SetStatus(body, sign_count) ==
    IF sign_count = Len(body.witnesses) THEN SetField(body, "status", "valid") ELSE body

\* the will as the handler writes it back, when the witness was found
SignedWill(body, witness) ==
    LET r == SignResult(body, witness)
    IN  SetStatus(SetField(body, "witnesses", r.witnesses), r.sign_count)

witness_sign(req) ==
    \/ /\ req.method # "GET"
       /\ last' = Handled("witness_sign", req, WrongMethod)
       /\ UNCHANGED procs
       /\ UNCHANGED store
    \/ /\ req.method = "GET"
       /\ ~(HasField(req.query, "public_key") /\ HasField(req.query, "witness"))
       /\ last' = Handled("witness_sign", req, MissingParam)
       /\ UNCHANGED procs
       /\ UNCHANGED store
    \/ /\ req.method = "GET"
       /\ HasField(req.query, "public_key") /\ HasField(req.query, "witness")
       /\ ~Exists(store, WILL_PREFIX \o req.query.public_key)
       /\ last' = Handled("witness_sign", req, Unhandled)
       /\ UNCHANGED procs
       /\ UNCHANGED store
    \/ /\ req.method = "GET"
       /\ HasField(req.query, "public_key") /\ HasField(req.query, "witness")
       /\ Exists(store, WILL_PREFIX \o req.query.public_key)
       /\ ~HasField(store[WILL_PREFIX \o req.query.public_key].fields, "witnesses")
       /\ last' = Handled("witness_sign", req, Unhandled)
       /\ UNCHANGED procs
       /\ UNCHANGED store
    \/ /\ req.method = "GET"
       /\ HasField(req.query, "public_key") /\ HasField(req.query, "witness")
       /\ Exists(store, WILL_PREFIX \o req.query.public_key)
       /\ HasField(store[WILL_PREFIX \o req.query.public_key].fields, "witnesses")
       /\ LET body == store[WILL_PREFIX \o req.query.public_key].fields
          IN  ~SignResult(body, req.query.witness).found_witness
       /\ last' = Handled("witness_sign", req, Response(400, "witness_not_found"))
       /\ UNCHANGED procs
       /\ UNCHANGED store
    \/ /\ req.method = "GET"
       /\ HasField(req.query, "public_key") /\ HasField(req.query, "witness")
       /\ Exists(store, WILL_PREFIX \o req.query.public_key)
       /\ HasField(store[WILL_PREFIX \o req.query.public_key].fields, "witnesses")
       /\ LET name == WILL_PREFIX \o req.query.public_key
              body == store[name].fields
          IN  /\ SignResult(body, req.query.witness).found_witness
              /\ store' = ClientSet(store, name, JDict(SignedWill(body, req.query.witness)))
       /\ last' = Handled("witness_sign", req, Response(200, "will"))
       /\ UNCHANGED procs

---------------------------------------------------------------------------
(* witness_sign, one ledger call at a time *)

SignStart(req, origin, attempt) ==
    Proc("read_will", "witness_sign", req, EmptyObject, <<>>, 0, origin, attempt)

witness_sign_step(p) ==
    LET pr      == procs[p]
        name    == WILL_PREFIX \o pr.req.query.public_key
        witness == pr.req.query.witness
    IN  /\ pr.op = "witness_sign"
        /\ \/ /\ pr.pc = "read_will"
              /\ \/ ~Exists(store, name)
                 \/ Exists(store, name) /\ ~HasField(store[name].fields, "witnesses")
              /\ Finish(p, Unhandled)
              /\ UNCHANGED store
           \/ /\ pr.pc = "read_will"
              /\ Exists(store, name) /\ HasField(store[name].fields, "witnesses")
              /\ ~SignResult(store[name].fields, witness).found_witness
              /\ Finish(p, Response(400, "witness_not_found"))
              /\ UNCHANGED store
           \/ /\ pr.pc = "read_will"
              /\ Exists(store, name) /\ HasField(store[name].fields, "witnesses")
              /\ SignResult(store[name].fields, witness).found_witness
              /\ procs' = [procs EXCEPT ![p].body = SignedWill(store[name].fields, witness),
                                        ![p].pc = "write_will"]
              /\ UNCHANGED <<store, last>>
           \/ /\ pr.pc = "write_will"
              /\ store' = ClientSet(store, name, JDict(pr.body))
              /\ procs' = [procs EXCEPT ![p].pc = "respond"]
              /\ UNCHANGED last
           \/ /\ pr.pc = "respond"
              /\ Finish(p, Response(200, "will"))
              /\ UNCHANGED store

---------------------------------------------------------------------------
(* Requests *)

RegisterBodies ==
    {EmptyObject}
        \cup {[public_key |-> k] : k \in PubKeys}
        \cup {[status |-> st, public_key |-> k] : k \in PubKeys, st \in RegisterStatuses}

\* a request of the wrong method is answered before its body or query is read
RegisterRequests ==
    {Request("GET", EmptyObject, EmptyObject)}
        \cup {Request("POST", b, EmptyObject) : b \in RegisterBodies}

KeyQueries(keys) == {EmptyObject} \cup {[public_key |-> k] : k \in keys}

ApproveRequests ==
    {Request("POST", EmptyObject, EmptyObject)}
        \cup {Request("GET", EmptyObject, q) : q \in KeyQueries(PubKeys)}

\* the witness entries a create-will body may carry
WitnessEntries ==
    {[public_key |-> w] : w \in Witnesses}
        \cup {[status |-> st, public_key |-> w] : w \in Witnesses, st \in EntryStatuses}

WitnessLists == UNION {[1..n -> WitnessEntries] : n \in 0..MaxWitnesses}

WillBodiesOf(t) ==
    {[public_key |-> t]}
        \cup {[status |-> st, public_key |-> t] : st \in WillStatuses}
        \cup {[public_key |-> t, witnesses |-> ws] : ws \in WitnessLists}
        \cup {[status |-> st, public_key |-> t, witnesses |-> ws] :
                 st \in WillStatuses, ws \in WitnessLists}

CreateWillBodies == {EmptyObject} \cup UNION {WillBodiesOf(t) : t \in Testators}

CreateWillRequests ==
    {Request("GET", EmptyObject, EmptyObject)}
        \cup {Request("POST", b, EmptyObject) : b \in CreateWillBodies}

\* create-will bodies that carry no status field, on the will or on a witness entry
PlainWitnessLists == UNION {[1..n -> {[public_key |-> w] : w \in Witnesses}] : n \in 0..MaxWitnesses}

PlainWillBodies ==
    {EmptyObject}
        \cup {[public_key |-> t] : t \in Testators}
        \cup {[public_key |-> t, witnesses |-> ws] : t \in Testators, ws \in PlainWitnessLists}

PlainCreateWillRequests ==
    {Request("GET", EmptyObject, EmptyObject)}
        \cup {Request("POST", b, EmptyObject) : b \in PlainWillBodies}

SignQueries ==
    KeyQueries(Testators)
        \cup {[public_key |-> t, witness |-> w] : t \in Testators, w \in Witnesses}

SignRequests ==
    {Request("POST", EmptyObject, EmptyObject)}
        \cup {Request("GET", EmptyObject, q) : q \in SignQueries}

\* the requests of the specification that follows every kind of entity
LedgerRegisterRequests ==
    {Request("GET", EmptyObject, EmptyObject), Request("POST", EmptyObject, EmptyObject)}
        \cup {Request("POST", [public_key |-> k], EmptyObject) : k \in LedgerKeys}

LedgerApproveRequests ==
    {Request("POST", EmptyObject, EmptyObject)}
        \cup {Request("GET", EmptyObject, q) : q \in KeyQueries(LedgerKeys)}

\* where registry and wills are followed together a will names one witness at most
LedgerWitnessLists == {<<>>} \cup {<<[public_key |-> w]>> : w \in Witnesses}

LedgerWillBodies ==
    {EmptyObject}
        \cup {[public_key |-> t] : t \in TwoTestators}
        \cup {[public_key |-> t, witnesses |-> ws] : t \in TwoTestators, ws \in LedgerWitnessLists}

\* two testators, witness lists that may name a witness twice
IndexWillBodies ==
    {EmptyObject}
        \cup {[public_key |-> t] : t \in TwoTestators}
        \cup {[public_key |-> t, witnesses |-> ws] : t \in TwoTestators, ws \in PlainWitnessLists}

IndexCreateWillRequests ==
    {Request("GET", EmptyObject, EmptyObject)}
        \cup {Request("POST", b, EmptyObject) : b \in IndexWillBodies}

LedgerCreateWillRequests ==
    {Request("GET", EmptyObject, EmptyObject)}
        \cup {Request("POST", b, EmptyObject) : b \in LedgerWillBodies}

LedgerSignRequests ==
    {Request("POST", EmptyObject, EmptyObject)}
        \cup {Request("GET", EmptyObject, q) : q \in KeyQueries(TwoTestators)}
        \cup {Request("GET", EmptyObject, [public_key |-> t, witness |-> w]) :
                 t \in TwoTestators, w \in Witnesses}

---------------------------------------------------------------------------
(* Specifications *)

Init ==
    /\ store = <<>>
    /\ last = Handled("start", Request("GET", EmptyObject, EmptyObject), WrongMethod)
    /\ procs = [p \in Procs |-> Idle]

Register == \E req \in RegisterRequests : register_pubkey(req)

Approve == \E req \in ApproveRequests : approve_public_key(req)

NextRegistry == Register \/ Approve

SpecRegistry == Init /\ [][NextRegistry]_vars

CreateWill == \E req \in CreateWillRequests : create_will(req)

Sign == \E req \in SignRequests : witness_sign(req)

NextWill == CreateWill \/ Sign

SpecWill == Init /\ [][NextWill]_vars

Next == Register \/ Approve \/ CreateWill \/ Sign

Spec == Init /\ [][Next]_vars

\* the will ledger driven by requests that carry no status field of their own
CreateWillPlain == \E req \in PlainCreateWillRequests : create_will(req)

NextPlainWill == CreateWillPlain \/ Sign

SpecPlainWill == Init /\ [][NextPlainWill]_vars

\* registry and will ledger together: one registering key, two testators, requests
\* that carry no status field of their own
LedgerRegister == \E req \in LedgerRegisterRequests : register_pubkey(req)

LedgerApprove == \E req \in LedgerApproveRequests : approve_public_key(req)

LedgerCreateWill == \E req \in LedgerCreateWillRequests : create_will(req)

LedgerSign == \E req \in LedgerSignRequests : witness_sign(req)

NextLedger == LedgerRegister \/ LedgerApprove \/ LedgerCreateWill \/ LedgerSign

SpecLedger == Init /\ [][NextLedger]_vars

\* wills created one after the other, by two testators
IndexCreateWill == \E req \in IndexCreateWillRequests : create_will(req)

NextIndex == IndexCreateWill

SpecIndex == Init /\ [][NextIndex]_vars

\* a call is started, by a handler that is not in the middle of another
Begin(p, pr) ==
    /\ ~Running(procs[p])
    /\ procs' = [procs EXCEPT ![p] = pr]
    /\ UNCHANGED <<store, last>>

\* the call that stopped is made again, from its first line
Restart(pr) ==
    CASE pr.op = "register"    -> RegisterStart(pr.req, pr.origin, pr.attempt + 1)
      [] pr.op = "approve"     -> ApproveStart(pr.req, pr.origin, pr.attempt + 1)
      [] pr.op = "create_will" -> CreateWillStart(pr.req, pr.origin, pr.attempt + 1)

Retry(p) ==
    /\ procs[p].pc = "crashed"
    /\ procs' = [procs EXCEPT ![p] = Restart(procs[p])]
    /\ UNCHANGED <<store, last>>

\* wills created one call after the other, each call one ledger call at a time; a
\* call may stop between two ledger calls, and is then made again or given up
StepsWillBodies == PlainWillBodies \ {EmptyObject}

StepsBeginCreateWill ==
    \E b \in StepsWillBodies :
        Begin("p1", CreateWillStart(Request("POST", b, EmptyObject), store, 0))

StepsCreateWill == create_will_step("p1")

StepsCrash == Crash("p1")

StepsRetry == Retry("p1")

NextWillSteps == StepsBeginCreateWill \/ StepsCreateWill \/ StepsCrash \/ StepsRetry

SpecWillSteps == Init /\ [][NextWillSteps]_vars

\* the wills listed for a witness: two testators, of whom one may register; wills are
\* created one ledger call at a time and a create_will may stop between two calls
ListWillBodies ==
    {[public_key |-> t] : t \in TwoTestators}
        \cup {[public_key |-> t, witnesses |-> <<[public_key |-> w]>>] :
                 t \in TwoTestators, w \in Witnesses}

ShowWillListRequests ==
    {Request("POST", EmptyObject, EmptyObject)}
        \cup {Request("GET", EmptyObject, q) : q \in KeyQueries(Witnesses)}

ListBeginCreateWill ==
    \E b \in ListWillBodies :
        Begin("p1", CreateWillStart(Request("POST", b, EmptyObject), <<>>, 0))

ListRegister ==
    /\ ~Running(procs["p1"])
    /\ \E req \in LedgerRegisterRequests : register_pubkey(req)

ShowWillList ==
    /\ ~Running(procs["p1"])
    /\ \E req \in ShowWillListRequests : show_will_list(req)

NextWillList ==
    ListBeginCreateWill \/ StepsCreateWill \/ StepsCrash \/ ListRegister \/ ShowWillList

SpecWillList == Init /\ [][NextWillList]_vars

\* the review list read back: two keys register, one ledger call at a time, and a
\* register_pubkey may stop between two calls
PendingBeginRegister ==
    \E k \in StepsKeys :
        Begin("p1", RegisterStart(Request("POST", [public_key |-> k], EmptyObject), <<>>, 0))

StepsRegister == register_step("p1")

ListPendingRequests ==
    {Request("POST", EmptyObject, EmptyObject), Request("GET", EmptyObject, EmptyObject)}

ListPending ==
    /\ ~Running(procs["p1"])
    /\ \E req \in ListPendingRequests : list_need_approve(req)

NextPendingList == PendingBeginRegister \/ StepsRegister \/ StepsCrash \/ ListPending

SpecPendingList == Init /\ [][NextPendingList]_vars

\* two handlers register against one ledger, their ledger calls interleaved
RaceBeginRegister ==
    \E p \in Procs, k \in StepsKeys :
        Begin(p, RegisterStart(Request("POST", [public_key |-> k], EmptyObject), <<>>, 0))

RaceRegister == \E p \in Procs : register_step(p)

NextTwoRegisters == RaceBeginRegister \/ RaceRegister

SpecTwoRegisters == Init /\ [][NextTwoRegisters]_vars

\* calls made one after the other, each one ledger call at a time; a call that
\* stopped between two ledger calls is made again before any other call is made
Rested(p) == procs[p].pc \in {"idle", "done", "failed"}

RetryBeginRegister ==
    /\ Rested("p1")
    /\ \E k \in StepsKeys :
           Begin("p1", RegisterStart(Request("POST", [public_key |-> k], EmptyObject), store, 0))

RetryBeginApprove ==
    /\ Rested("p1")
    /\ \E k \in StepsKeys :
           Begin("p1", ApproveStart(Request("GET", EmptyObject, [public_key |-> k]), store, 0))

RetryBeginCreateWill ==
    /\ Rested("p1")
    /\ StepsBeginCreateWill

StepsApprove == approve_step("p1")

NextRetry ==
    \/ RetryBeginRegister \/ RetryBeginApprove \/ RetryBeginCreateWill
    \/ StepsRegister \/ StepsApprove \/ StepsCreateWill
    \/ StepsCrash \/ StepsRetry

SpecRetry == Init /\ [][NextRetry]_vars

\* wills are created, then two handlers sign against one ledger, their ledger calls
\* interleaved
RaceCreateWill ==
    /\ \A p \in Procs : procs[p].pc = "idle"
    /\ \E b \in StepsWillBodies : create_will(Request("POST", b, EmptyObject))

RaceBeginSign ==
    \E p \in Procs, t \in Testators, w \in Witnesses :
        Begin(p, SignStart(Request("GET", EmptyObject, [public_key |-> t, witness |-> w]),
                           <<>>, 0))

RaceSign == \E p \in Procs : witness_sign_step(p)

NextTwoSigns == RaceCreateWill \/ RaceBeginSign \/ RaceSign

SpecTwoSigns == Init /\ [][NextTwoSigns]_vars

\* public keys are any strings the callers send: here some begin with a prefix of
\* another kind of entry, or are the name of the review list.  The handlers are
\* followed until a list has been overwritten by an object.
CollideRegisterKeys == {<<"alice">>, <<"WILL_", "alice">>, KEY_NEED_REVIEW}

CollideApproveKeys == {<<"alice">>, <<"WILL_", "alice">>}

CollideTestators == {<<"alice">>, <<"LIST_", "bob">>}

CollideRegisterRequests ==
    {Request("GET", EmptyObject, EmptyObject), Request("POST", EmptyObject, EmptyObject)}
        \cup {Request("POST", [public_key |-> k], EmptyObject) : k \in CollideRegisterKeys}

CollideApproveRequests ==
    {Request("POST", EmptyObject, EmptyObject)}
        \cup {Request("GET", EmptyObject, q) : q \in KeyQueries(CollideApproveKeys)}

CollideCreateWillRequests ==
    {Request("GET", EmptyObject, EmptyObject), Request("POST", EmptyObject, EmptyObject)}
        \cup {Request("POST", [public_key |-> t, witnesses |-> ws], EmptyObject) :
                 t \in CollideTestators, ws \in LedgerWitnessLists}

CollideSignRequests ==
    {Request("POST", EmptyObject, EmptyObject)}
        \cup {Request("GET", EmptyObject, q) : q \in KeyQueries({<<"alice">>})}
        \cup {Request("GET", EmptyObject, [public_key |-> <<"alice">>, witness |-> w]) :
                 w \in Witnesses}

\* the review list and the will lists, where set, still hold lists
ListsAreLists ==
    \A name \in {KEY_NEED_REVIEW} \cup {WILL_LIST_PREFIX \o w : w \in Witnesses} :
        Exists(store, name) => store[name].type = "list"

CollideRegister ==
    /\ ListsAreLists
    /\ \E req \in CollideRegisterRequests : register_pubkey(req)

CollideApprove ==
    /\ ListsAreLists
    /\ \E req \in CollideApproveRequests : approve_public_key(req)

CollideCreateWill ==
    /\ ListsAreLists
    /\ \E req \in CollideCreateWillRequests : create_will(req)

CollideSign ==
    /\ ListsAreLists
    /\ \E req \in CollideSignRequests : witness_sign(req)

NextCollide == CollideRegister \/ CollideApprove \/ CollideCreateWill \/ CollideSign

SpecCollide == Init /\ [][NextCollide]_vars

\* two keys register and two testators create wills, one call after the other; a
\* read of a list may fail although the list is set
FaultRegisterRequests ==
    {Request("GET", EmptyObject, EmptyObject), Request("POST", EmptyObject, EmptyObject)}
        \cup {Request("POST", [public_key |-> k], EmptyObject) : k \in StepsKeys}

FaultCreateWillRequests ==
    {Request("GET", EmptyObject, EmptyObject), Request("POST", EmptyObject, EmptyObject)}
        \cup {Request("POST", b, EmptyObject) : b \in ListWillBodies}

FaultRegister == \E req \in FaultRegisterRequests : register_pubkey(req)

FaultRegisterUnread == \E req \in FaultRegisterRequests : register_pubkey_read_fails(req)

FaultCreateWill == \E req \in FaultCreateWillRequests : create_will(req)

FaultCreateWillUnread ==
    \E req \in FaultCreateWillRequests :
        \E lost \in SUBSET {WILL_LIST_PREFIX \o w : w \in Witnesses} :
            create_will_read_fails(req, lost)

NextReadFaults ==
    FaultRegister \/ FaultRegisterUnread \/ FaultCreateWill \/ FaultCreateWillUnread

SpecReadFaults == Init /\ [][NextReadFaults]_vars

---------------------------------------------------------------------------
(* Vocabulary of the properties *)

WillKey(t) == WILL_PREFIX \o t

IndexKey(w) == WILL_LIST_PREFIX \o w

HasWill(s, t) == Exists(s, WillKey(t))

WillOf(s, t) == s[WillKey(t)].fields

HasRecord(s, k) == Exists(s, k)

RecordOf(s, k) == s[k].fields

StatusIs(d, st) == HasField(d, "status") /\ d.status = st

\* the entries of the pending review list, empty while the list does not exist
Pending(s) == IF Exists(s, KEY_NEED_REVIEW) THEN s[KEY_NEED_REVIEW].items ELSE <<>>

NoDuplicates(l) == \A i, j \in 1..Len(l) : l[i] = l[j] => i = j

\* w is among the witness entries of the will
Listed(will, w) ==
    HasField(will, "witnesses") /\ \E i \in 1..Len(will.witnesses) : will.witnesses[i].public_key = w

\* every entry of the will's witness list is signed
AllSigned(will) == \A i \in 1..Len(will.witnesses) : IsSigned(will.witnesses[i])

DistinctWitnesses(will) ==
    NoDuplicates([i \in 1..Len(will.witnesses) |-> will.witnesses[i].public_key])

\* the body names no witness: the list is absent or empty
ZeroWitnesses(body) == HasField(body, "witnesses") => body.witnesses = <<>>

Succeeded(h, op) == h.op = op /\ h.resp.status = 200 /\ h.resp.data # "none"

\* the last request handled was Sign(t, w) with both parameters
SignOf(h, t, w) == h.op = "witness_sign" /\ h.req.method = "GET"
                   /\ h.req.query = [public_key |-> t, witness |-> w]

---------------------------------------------------------------------------
(* Properties *)

\* C1: Sign is idempotent per witness: a Sign(t, w) that directly follows a successful
\* Sign(t, w) leaves the stored will, status and witness entries, as the first left it.
C1_SignTwiceEqualsSignOnce ==
    [][\A t \in Testators, w \in Witnesses :
          (SignOf(last, t, w) /\ Succeeded(last, "witness_sign") /\ SignOf(last', t, w))
              => store' = store]_vars

\* C2: Signature completion: after a successful Sign on a will of distinct witnesses,
\* the will is valid if and only if every witness entry is signed.
C2_ValidIffAllSigned ==
    \A t \in Testators :
        (Succeeded(last, "witness_sign") /\ HasWill(store, t)
            /\ HasField(WillOf(store, t), "witnesses") /\ DistinctWitnesses(WillOf(store, t)))
            => (StatusIs(WillOf(store, t), "valid") <=> AllSigned(WillOf(store, t)))

\* C3: a created will with a non-empty witness list is stored pending, with every
\* witness entry unsigned.
C3_CreatedWillIsPending ==
    (Succeeded(last, "create_will") /\ ~ZeroWitnesses(last.req.body))
        => LET will == WillOf(store, last.req.body.public_key)
           IN  /\ StatusIs(will, "pending")
               /\ \A i \in 1..Len(will.witnesses) : ~IsSigned(will.witnesses[i])

\* C4: creating a will with an empty or absent witness list stores the will valid and
\* writes nothing else: every other key of the store, each witness index among them,
\* is as it was.
C4_ZeroWitnessWillIsValid ==
    [][(Succeeded(last', "create_will") /\ ZeroWitnesses(last'.req.body))
          => LET t == last'.req.body.public_key
             IN  /\ HasWill(store', t)
                 /\ StatusIs(WillOf(store', t), "valid")
                 /\ DOMAIN store' = DOMAIN store \cup {WillKey(t)}
                 /\ \A k \in DOMAIN store : k # WillKey(t) => store'[k] = store[k]]_vars

C4_Witness ==
    /\ Succeeded(last, "create_will")
    /\ HasField(last.req.body, "witnesses") /\ last.req.body.witnesses = <<>>
    /\ StatusIs(WillOf(store, last.req.body.public_key), "valid")
    /\ \E w \in Witnesses : Exists(store, IndexKey(w))

\* C5: Sign(t, w) on an existing will that does not list w is answered 400 'Witness
\* is not found in this will' and leaves the store as it was.
C5_UnknownWitnessRejected ==
    [][\A t \in Testators, w \in Witnesses :
          (SignOf(last', t, w) /\ HasWill(store, t) /\ ~Listed(WillOf(store, t), w))
              => (last'.resp = Response(400, "witness_not_found") /\ store' = store)]_vars

\* C6: the pending review list never holds a public key twice.
C6_PendingHasNoDuplicates == NoDuplicates(Pending(store))

C6_Witness ==
    /\ Succeeded(last, "register")
    /\ Len(Pending(store)) >= 2
    /\ Pending(store)[1] = last.req.body.public_key

\* C7: a completed Approve(k) leaves k out of the pending review list and its record
\* approved; the other members of the list, in their order, and the other records are
\* as they were.
C7_ApproveRemovesFromPending ==
    [][\A k \in PubKeys :
          (Succeeded(last', "approve") /\ last'.req.query = [public_key |-> k])
              => /\ ~Contains(Pending(store'), k)
                 /\ StatusIs(RecordOf(store', k), "approved")
                 /\ Pending(store') = SelectSeq(Pending(store), LAMBDA x : x # k)
                 /\ DOMAIN store' = DOMAIN store
                 /\ \A k2 \in DOMAIN store :
                        k2 \notin {k, KEY_NEED_REVIEW} => store'[k2] = store[k2]]_vars

C7_Witness ==
    /\ Succeeded(last, "approve")
    /\ StatusIs(RecordOf(store, last.req.query.public_key), "approved")
    /\ Len(Pending(store)) >= 1
    /\ \E k \in PubKeys : HasRecord(store, k) /\ StatusIs(RecordOf(store, k), "need_review")

\* C8: a Register whose body carries no status stores the record with status
\* need_review and has the key in the pending review list.
C8_RegisterDefaultsAndEnqueues ==
    (Succeeded(last, "register") /\ ~HasField(last.req.body, "status"))
        => LET k == last.req.body.public_key
           IN  /\ HasRecord(store, k)
               /\ StatusIs(RecordOf(store, k), "need_review")
               /\ Exists(store, KEY_NEED_REVIEW)
               /\ Contains(Pending(store), k)

\* the first registration: the store holds the new list and the one record, no more
C8_Witness ==
    /\ Succeeded(last, "register") /\ ~HasField(last.req.body, "status")
    /\ DOMAIN store = {KEY_NEED_REVIEW, last.req.body.public_key}
    /\ Pending(store) = <<last.req.body.public_key>>
    /\ StatusIs(RecordOf(store, last.req.body.public_key), "need_review")

\* C9: a Sign request never takes a valid will to another status.
C9_ValidIsTerminalUnderSign ==
    [][\A t \in Testators :
          (last'.op = "witness_sign" /\ HasWill(store, t) /\ StatusIs(WillOf(store, t), "valid"))
              => (HasWill(store', t) /\ StatusIs(WillOf(store', t), "valid"))]_vars

\* a valid will that a witness it does not list asked to sign
C9_Witness ==
    \E t \in Testators, w \in Witnesses :
        /\ SignOf(last, t, w) /\ last.resp = Response(400, "witness_not_found")
        /\ HasWill(store, t) /\ StatusIs(WillOf(store, t), "valid")
        /\ Len(WillOf(store, t).witnesses) >= 1

\* C10: a record's status changes only by Approve of its key, and a record is
\* approved only by Approve of its key.
C10_StatusChangesOnlyByApprove ==
    [][\A k \in PubKeys :
          (/\ HasRecord(store', k)
           /\ \/ HasRecord(store, k) /\ RecordOf(store', k).status # RecordOf(store, k).status
              \/ ~HasRecord(store, k) /\ StatusIs(RecordOf(store', k), "approved"))
              => (last'.op = "approve" /\ last'.req.query = [public_key |-> k])]_vars

\* the entries of a witness's will list, empty while the list does not exist
Index(s, w) == IF Exists(s, IndexKey(w)) THEN s[IndexKey(w)].items ELSE <<>>

\* C11: no witness's will list holds the same testator key twice.
C11_IndexHasNoDuplicates == \A w \in Witnesses : NoDuplicates(Index(store, w))

\* a will that names bob twice, created again, while bob's list holds both testators
C11_Witness ==
    /\ Succeeded(last, "create_will")
    /\ HasField(last.req.body, "witnesses")
    /\ Len(last.req.body.witnesses) = 2
    /\ last.req.body.witnesses[1] = last.req.body.witnesses[2]
    /\ Len(Index(store, last.req.body.witnesses[1].public_key)) = 2
    /\ Index(store, last.req.body.witnesses[1].public_key)[1] = last.req.body.public_key

\* C12: every stored will of testator t that names witness w has t in w's will list,
\* in every state of wills created one call after the other, the states in which a
\* create_will stopped between two ledger calls included.
C12_IndexBeforeWill ==
    \A t \in Testators, w \in Witnesses :
        (HasWill(store, t) /\ Listed(WillOf(store, t), w)) => Contains(Index(store, w), t)

\* a second create_will stopped after its index write: carol's list has the testator,
\* the stored will is still the first, which names bob alone
C12_Witness ==
    \E t \in Testators :
        /\ procs["p1"].pc = "crashed"
        /\ HasWill(store, t)
        /\ Listed(WillOf(store, t), <<"bob">>) /\ ~Listed(WillOf(store, t), <<"carol">>)
        /\ Contains(Index(store, <<"carol">>), t)

\* C13: a testator that is in a witness's will list is in it in every later state,
\* whatever Register, Approve, CreateWill or Sign request is handled.
C13_IndexOnlyGrows ==
    [][\A w \in Witnesses, t \in TwoTestators :
          Contains(Index(store, w), t) => Contains(Index(store', w), t)]_vars

\* the testator's will was created again naming carol alone, then carol signed it:
\* bob's list still has the testator
C13_Witness ==
    \E t \in TwoTestators :
        /\ SignOf(last, t, <<"carol">>) /\ Succeeded(last, "witness_sign")
        /\ ~Listed(WillOf(store, t), <<"bob">>)
        /\ Contains(Index(store, <<"bob">>), t)
        /\ Contains(Index(store, <<"carol">>), t)

\* C16: Approve(k) with no record stored at k, and Sign(t, w) with no will stored for
\* t, fail and leave the store as it was.
C16_NotFoundLeavesStore ==
    [][/\ \A k \in LedgerKeys :
            (last'.op = "approve" /\ last'.req.method = "GET"
                /\ last'.req.query = [public_key |-> k] /\ ~HasRecord(store, k))
                => (last'.resp.status \notin {200} /\ store' = store)
       /\ \A t \in TwoTestators, w \in Witnesses :
            (SignOf(last', t, w) /\ ~HasWill(store, t))
                => (last'.resp.status \notin {200} /\ store' = store)]_vars

\* an Approve of the unregistered key has failed on a store that holds a will and a
\* will list; a Sign for dave, who has no will, would fail on it as well
C16_Witness ==
    /\ last.op = "approve" /\ last.req.query = [public_key |-> <<"alice">>]
    /\ last.resp.status = 500
    /\ ~HasRecord(store, <<"alice">>)
    /\ ~HasWill(store, <<"dave">>) /\ HasWill(store, <<"alice">>)
    /\ Exists(store, IndexKey(<<"bob">>))

\* the listed testators whose will and whose record can both be read, in list order
Resolvable(s, w) == SelectSeq(Index(s, w), LAMBDA t : HasWill(s, t) /\ HasRecord(s, t))

\* C14: ListForWitness(w) succeeds and writes nothing; it returns, in the order of
\* w's will list, the stored will with the testator's record attached for each listed
\* testator whose will and record can both be read, nothing for the others, and the
\* empty sequence when w has no will list.
C14_ListForWitnessSkips ==
    [][\A w \in Witnesses :
          (last'.op = "show_will_list" /\ last'.req.method = "GET"
              /\ last'.req.query = [public_key |-> w] /\ procs' = procs)
              => /\ store' = store
                 /\ last'.resp.status = 200
                 /\ Len(last'.payload) = Len(Resolvable(store, w))
                 /\ \A i \in 1..Len(last'.payload) :
                        last'.payload[i] =
                            SetField(WillOf(store, Resolvable(store, w)[i]), "testator",
                                     RecordOf(store, Resolvable(store, w)[i]))
                 /\ (~Exists(store, IndexKey(w)) => last'.payload = <<>>)]_vars

\* bob's list holds alice, who is registered, before dave, who is not: one entry is
\* returned, alice's will with her record
C14_Witness ==
    /\ last.op = "show_will_list" /\ last.resp.status = 200
    /\ last.req.query = [public_key |-> <<"bob">>]
    /\ Index(store, <<"bob">>) = << <<"alice">>, <<"dave">> >>
    /\ HasWill(store, <<"dave">>) /\ ~HasRecord(store, <<"dave">>)
    /\ Len(last.payload) = 1
    /\ last.payload[1].testator = RecordOf(store, <<"alice">>)

\* C15: when the pending review list holds a key whose record cannot be read,
\* ListPending succeeds and returns the records of the other listed keys, in list
\* order.
C15_ListPendingSkips ==
    [][(/\ last'.op = "list_need_approve" /\ last'.req.method = "GET" /\ procs' = procs
        /\ \E i \in 1..Len(Pending(store)) : ~HasRecord(store, Pending(store)[i]))
          => /\ last'.resp.status = 200
             /\ last'.payload = ResolveReadable(store, Pending(store))]_vars

\* both handlers have returned from a register_pubkey, of keys k1 and k2
BothRegistered(k1, k2) ==
    /\ procs["p1"].pc = "done" /\ procs["p1"].op = "register"
    /\ procs["p1"].body.public_key = k1
    /\ procs["p2"].pc = "done" /\ procs["p2"].op = "register"
    /\ procs["p2"].body.public_key = k2

\* C17: when two Register handlers for distinct keys, their ledger calls interleaved,
\* have both completed, both records are stored and the review list, which has no
\* duplicates, holds at least one of the two keys; it need not hold both, as the
\* state of C17_Witness shows.
C17_LastListWriterIsListed ==
    \A k1, k2 \in StepsKeys :
        (k1 # k2 /\ BothRegistered(k1, k2))
            => /\ HasRecord(store, k1) /\ HasRecord(store, k2)
               /\ NoDuplicates(Pending(store))
               /\ Contains(Pending(store), k1) \/ Contains(Pending(store), k2)

\* the lost update: both handlers have answered, both records are stored, and the
\* review list holds bob alone
C17_Witness ==
    /\ BothRegistered(<<"alice">>, <<"bob">>)
    /\ Succeeded(last, "register")
    /\ HasRecord(store, <<"alice">>) /\ HasRecord(store, <<"bob">>)
    /\ Pending(store) = << <<"bob">> >>

\* the store one uninterrupted approve_public_key of k leaves, started on s
ApprovedFrom(s, k) ==
    IF ~HasRecord(s, k) THEN s
    ELSE LET s1 == ClientSet(s, k, JDict(MarkApproved(RecordOf(s, k))))
         IN  IF Exists(s1, KEY_NEED_REVIEW)
             THEN ClientSet(s1, KEY_NEED_REVIEW, JList(Dequeue(Pending(s1), k)))
             ELSE s1

\* the store one uninterrupted run of the call leaves, started on the call's origin
Uninterrupted(pr) ==
    CASE pr.op = "register"    -> RegisterWrites(pr.origin, pr.req.body)
      [] pr.op = "approve"     -> ApprovedFrom(pr.origin, pr.req.query.public_key)
      [] pr.op = "create_will" -> CreateWillWrites(pr.origin, pr.req.body)

\* C18: a Register, Approve or CreateWill call that stopped after any number of its
\* ledger writes and was then made again, nothing else in between, leaves when it
\* completes the store that one uninterrupted run from the original store leaves, and
\* no list in it holds a key twice.
C18_RetryConverges ==
    procs["p1"].pc \in {"done", "failed"}
        => /\ store = Uninterrupted(procs["p1"])
           /\ NoDuplicates(Pending(store))
           /\ \A w \in Witnesses : NoDuplicates(Index(store, w))

\* a create_will naming bob and carol completed on its second run, on a store that
\* held a pending review list and a will before the call was first made
C18_Witness ==
    /\ procs["p1"].pc = "done" /\ procs["p1"].op = "create_will"
    /\ procs["p1"].attempt = 1
    /\ Exists(procs["p1"].origin, KEY_NEED_REVIEW)
    /\ HasWill(procs["p1"].origin, procs["p1"].req.body.public_key)
    /\ ~Exists(procs["p1"].origin, IndexKey(<<"carol">>))
    /\ Listed(procs["p1"].req.body, <<"bob">>) /\ Listed(procs["p1"].req.body, <<"carol">>)
    /\ store # procs["p1"].origin

\* both handlers have answered 200 to a witness_sign, for t by w1 and for t by w2
BothSigned(t, w1, w2) ==
    /\ procs["p1"].pc = "done" /\ procs["p1"].op = "witness_sign"
    /\ procs["p1"].req.query = [public_key |-> t, witness |-> w1]
    /\ procs["p2"].pc = "done" /\ procs["p2"].op = "witness_sign"
    /\ procs["p2"].req.query = [public_key |-> t, witness |-> w2]

\* the entry of w in the will is signed
SignedBy(will, w) ==
    \E i \in 1..Len(will.witnesses) :
        will.witnesses[i].public_key = w /\ IsSigned(will.witnesses[i])

\* C19: for a will of t with distinct witnesses, once Sign(t, w1) and Sign(t, w2), run
\* with their ledger calls interleaved, have both completed successfully, both
\* entries are stored signed and, when the will has no other witness, it is valid.
C19_ConcurrentSignsKept ==
    \A t \in Testators, w1, w2 \in Witnesses :
        (w1 # w2 /\ BothSigned(t, w1, w2) /\ DistinctWitnesses(WillOf(store, t)))
            => /\ SignedBy(WillOf(store, t), w1)
               /\ SignedBy(WillOf(store, t), w2)
               /\ Len(WillOf(store, t).witnesses) = 2 => StatusIs(WillOf(store, t), "valid")

\* C20: a will stored valid is stored valid in every later state, whatever Register,
\* Approve, CreateWill or Sign request is handled.
C20_ValidNeverReverts ==
    [][\A t \in TwoTestators :
          (HasWill(store, t) /\ StatusIs(WillOf(store, t), "valid"))
              => (HasWill(store', t) /\ StatusIs(WillOf(store', t), "valid"))]_vars

\* C21: whenever no Register or Approve call is under way, a key is in the pending
\* review list exactly when a record with status need_review is stored at it,
\* whatever status the Register requests carried.
C21_PendingIffNeedReview ==
    \A k \in PubKeys :
        Contains(Pending(store), k)
            <=> (HasRecord(store, k) /\ StatusIs(RecordOf(store, k), "need_review"))

\* what is stored at the key is stored there, unchanged, after the step
Kept(s, t, name) == Exists(s, name) => (Exists(t, name) /\ t[name] = s[name])

\* the entry stored at the name is a record: an object stored under its own public key
IsRecordAt(s, name) ==
    Exists(s, name) /\ s[name].type = "dict" /\ s[name].fields.public_key = name

\* the entry stored at the name is a will: an object stored under WILL_ + its public key
IsWillAt(s, name) ==
    Exists(s, name) /\ s[name].type = "dict"
        /\ WILL_PREFIX \o s[name].fields.public_key = name

IsListAt(s, name) == Exists(s, name) /\ s[name].type = "list"

\* the request handled last names w as a witness
NamesWitness(h, w) ==
    \/ Listed(h.req.body, w)
    \/ HasField(h.req.query, "witness") /\ h.req.query.witness = w

\* C22: the keys of records, of the review list, of wills and of will lists never
\* coincide: a Register or Approve leaves every will and every will list as it was
\* and the review list a list; a CreateWill or Sign leaves every record, the review
\* list and the will list of every witness the call does not name as they were.
C22_KindsKeepToTheirKeys ==
    [][/\ last'.op \in {"register", "approve"}
            => /\ \A name \in DOMAIN store : IsWillAt(store, name) => Kept(store, store', name)
               /\ \A w \in Witnesses :
                      IsListAt(store, IndexKey(w)) => Kept(store, store', IndexKey(w))
               /\ IsListAt(store, KEY_NEED_REVIEW) => IsListAt(store', KEY_NEED_REVIEW)
       /\ last'.op \in {"create_will", "witness_sign"}
            => /\ \A name \in DOMAIN store : IsRecordAt(store, name) => Kept(store, store', name)
               /\ IsListAt(store, KEY_NEED_REVIEW) => Kept(store, store', KEY_NEED_REVIEW)
               /\ \A w \in Witnesses :
                      (IsListAt(store, IndexKey(w)) /\ ~NamesWitness(last', w))
                          => Kept(store, store', IndexKey(w))]_vars

\* C23: a Register of k leaves every other key of the pending review list in it, and
\* a CreateWill of t leaves every other testator of every will list in it, also when
\* the handler's read of the list fails although the list is set.
C23_ListWritesKeepMembers ==
    [][/\ Succeeded(last', "register")
            => \A k \in StepsKeys :
                   (k # last'.req.body.public_key /\ Contains(Pending(store), k))
                       => Contains(Pending(store'), k)
       /\ Succeeded(last', "create_will")
            => \A w \in Witnesses, t \in TwoTestators :
                   (t # last'.req.body.public_key /\ Contains(Index(store, w), t))
                       => Contains(Index(store', w), t)]_vars

=============================================================================
